---- MODULE Spec2Model ----
(***************************************************************************)
(* Business-day counting of crates/polars-ops/src/series/ops/business.rs:  *)
(* the weekday calculator, the holiday normaliser, the pairwise count      *)
(* kernel (business_day_count_impl) and the broadcasting driver            *)
(* (business_day_count).                                                   *)
(*                                                                         *)
(* Dates are i32 day counts since 1970-01-01.  The model uses unbounded    *)
(* integers on a window of dates around the epoch, where no i32 operation  *)
(* of the code overflows.                                                  *)
(* An Option<T> is a sequence: None is <<>>, Some(v) is <<v>>.  A nullable *)
(* Date / Int32 array is a sequence of Options.                            *)
(***************************************************************************)
EXTENDS Integers, Sequences, FiniteSets

VARIABLES
    week_mask,      \* [bool; 7], indexed 0 (Monday) .. 6 (Sunday)
    raw_holidays,   \* the caller's holiday slice (&[i32])
    start,          \* the start dates (nullable array)
    end,            \* the end dates (nullable array)
    pc,             \* position in business_day_count / business_day_count_impl
    holidays,       \* Option: the normalised holidays once line 22 has run
    out,            \* Option: the result array once line 27 has run
    frame           \* locals of the business_day_count_impl call being stepped

vars == <<week_mask, raw_holidays, start, end, pc, holidays, out, frame>>

----------------------------------------------------------------------------
(* Bounds of the model. *)

\* dates of a pair are drawn from -DateSpan .. DateSpan
DateSpan == 7
\* longest raw holiday list handed to the normaliser specification
MaxRawLen == 3
\* raw holidays of the normaliser specification lie in -NormSpan .. NormSpan
NormSpan == 2
\* longest start / end array of the driver specification
MaxLen == 2

Dates == (-DateSpan)..DateSpan
\* raw holiday lists offered to the kernel specifications: none, two out of
\* order, a repeated one, three spread over the window, four days in a row
RawHolidayLists == {<<>>, <<3, -2>>, <<-2, 3, -2>>, <<5, -6, 0>>, <<1, 2, 0, -1>>}
\* dates offered as array elements to the driver specification
ElemDates == {0, 5}

----------------------------------------------------------------------------
(* Values. *)

None == <<>>
Some(v) == <<v>>

Range(s) == {s[i] : i \in 1..Len(s)}

SeqsUpTo(S, n) == UNION {[1..m -> S] : m \in 0..n}

WeekMasks == [0..6 -> BOOLEAN]

\* Rust's % on i32: the remainder truncates toward zero (sign of the dividend)
RustRem(a, b) == IF a >= 0 THEN a % b ELSE -((-a) % b)

\* Rust's / on i32: the quotient truncates toward zero
RustDiv(a, b) == IF a >= 0 THEN a \div b ELSE -((-a) \div b)

----------------------------------------------------------------------------
(* Weekday calculator. *)

weekday_truncating(x) == RustRem(x - 4, 7)

weekday_no_epoch_offset(x) == RustRem(RustRem(x, 7) + 7, 7)

weekday(x) == RustRem(RustRem(x - 4, 7) + 7, 7)

increment_weekday(x) == IF x = 6 THEN 0 ELSE x + 1

\* week_mask.get_unchecked(i): the read is defined for i in 0..6 only
get_unchecked(mask, i) == mask[i]

----------------------------------------------------------------------------
(* Holiday normaliser. *)

RECURSIVE insert_sorted(_, _)
insert_sorted(s, x) ==
    IF s = <<>> THEN <<x>>
    ELSE IF x <= Head(s) THEN <<x>> \o s
    ELSE <<Head(s)>> \o insert_sorted(Tail(s), x)

RECURSIVE sort_unstable(_)
sort_unstable(s) ==
    IF s = <<>> THEN <<>> ELSE insert_sorted(sort_unstable(Tail(s)), Head(s))

holiday_dropped_keep_duplicates(x, previous_holiday, mask) ==
    ~get_unchecked(mask, weekday(x))

holiday_dropped_keep_weekends(x, previous_holiday, mask) ==
    Some(x) = previous_holiday

\* the retain closure returns false (the element is dropped)
holiday_dropped(x, previous_holiday, mask) ==
    (Some(x) = previous_holiday) \/ ~get_unchecked(mask, weekday(x))

RECURSIVE retain(_, _, _)
retain(s, previous_holiday, mask) ==
    IF s = <<>> THEN <<>>
    ELSE IF holiday_dropped(Head(s), previous_holiday, mask)
         THEN retain(Tail(s), previous_holiday, mask)
         ELSE <<Head(s)>> \o retain(Tail(s), Some(Head(s)), mask)

normalise_holidays(hol, mask) == retain(sort_unstable(hol), None, mask)

----------------------------------------------------------------------------
(* Pairwise count kernel. *)

\* slice::binary_search on an ascending slice: Ok(position of x) or
\* Err(position where x would be inserted), positions counted from 0
binary_search(s, x) ==
    IF \E i \in 1..Len(s) : s[i] = x
    THEN [ok |-> TRUE, idx |-> (CHOOSE i \in 1..Len(s) : s[i] = x) - 1]
    ELSE [ok |-> FALSE, idx |-> Cardinality({i \in 1..Len(s) : s[i] < x})]

swap_without_shift(start_date, end_date) ==
    IF start_date > end_date
    THEN [start_date |-> end_date, end_date |-> start_date, swapped |-> TRUE]
    ELSE [start_date |-> start_date, end_date |-> end_date, swapped |-> FALSE]

swap_and_shift(start_date, end_date) ==
    IF start_date > end_date
    THEN [start_date |-> end_date + 1, end_date |-> start_date + 1, swapped |-> TRUE]
    ELSE [start_date |-> start_date, end_date |-> end_date, swapped |-> FALSE]

holidays_begin_of(hol, start_date) == binary_search(hol, start_date).idx

holidays_end_without_offset(hol, holidays_begin, end_date) ==
    binary_search(SubSeq(hol, holidays_begin + 1, Len(hol)), end_date).idx

holidays_end_of(hol, holidays_begin, end_date) ==
    binary_search(SubSeq(hol, holidays_begin + 1, Len(hol)), end_date).idx
        + holidays_begin

\* the locals when control first reaches the while loop
impl_enter(start_date, end_date, n_business_days_in_week_mask, hol) ==
    LET s == swap_and_shift(start_date, end_date)
        holidays_begin == holidays_begin_of(hol, s.start_date)
        holidays_end == holidays_end_of(hol, holidays_begin, s.end_date)
        diff == s.end_date - s.start_date
        whole_weeks == RustDiv(diff, 7)
    IN  [start_date |-> s.start_date + whole_weeks * 7,
         end_date |-> s.end_date,
         swapped |-> s.swapped,
         start_weekday |-> weekday(s.start_date),
         count |-> -(holidays_end - holidays_begin)
                     + whole_weeks * n_business_days_in_week_mask]

loop_cond(k) == k.start_date < k.end_date

\* one iteration of the while loop
loop_body(k, mask) ==
    [k EXCEPT !.count = IF get_unchecked(mask, k.start_weekday) THEN @ + 1 ELSE @,
              !.start_date = @ + 1,
              !.start_weekday = increment_weekday(@)]

RECURSIVE run_loop(_, _)
run_loop(k, mask) ==
    IF loop_cond(k) THEN run_loop(loop_body(k, mask), mask) ELSE k

impl_return_without_negation(k) == k.count

impl_return(k) == IF k.swapped THEN -k.count ELSE k.count

business_day_count_impl(start_date, end_date, mask, n_business_days_in_week_mask, hol) ==
    impl_return(run_loop(
        impl_enter(start_date, end_date, n_business_days_in_week_mask, hol), mask))

----------------------------------------------------------------------------
(* Array primitives of the columnar layer. *)

\* the non-null values of an array
values(arr) == {arr[i][1] : i \in {j \in 1..Len(arr) : arr[j] # None}}

full_null(n) == [i \in 1..n |-> None]

\* f is the closure, a function on the values of arr
apply_values(arr, f) ==
    [i \in 1..Len(arr) |-> IF arr[i] = None THEN None ELSE Some(f[arr[i][1]])]

\* f is the closure, a function on pairs of values of lhs and rhs
binary_elementwise_values(lhs, rhs, f) ==
    [i \in 1..Len(lhs) |->
        IF lhs[i] = None \/ rhs[i] = None THEN None
        ELSE Some(f[<<lhs[i][1], rhs[i][1]>>])]

----------------------------------------------------------------------------
(* Broadcasting driver: business_day_count. *)

all_business_days(mask) == \A i \in 0..6 : mask[i]

has_business_day(mask) == \E i \in 0..6 : mask[i]

n_business_days(mask) == Cardinality({i \in 0..6 : mask[i]})

Count(start_date, end_date) ==
    business_day_count_impl(start_date, end_date, week_mask,
                            n_business_days(week_mask), holidays[1])

NoFrame ==
    [start_date |-> 0, end_date |-> 0, swapped |-> FALSE, start_weekday |-> 0,
     count |-> 0]

\* line 18-20: the week mask has no business day
Bail ==
    /\ pc = "validate"
    /\ ~has_business_day(week_mask)
    /\ pc' = "error"
    /\ UNCHANGED <<week_mask, raw_holidays, start, end, holidays, out, frame>>

\* line 18: the week mask passes
Validated ==
    /\ pc = "validate"
    /\ has_business_day(week_mask)
    /\ pc' = "normalise"
    /\ UNCHANGED <<week_mask, raw_holidays, start, end, holidays, out, frame>>

\* line 22
Normalise ==
    /\ pc = "normalise"
    /\ holidays' = Some(normalise_holidays(raw_holidays, week_mask))
    /\ pc' = "dispatch"
    /\ UNCHANGED <<week_mask, raw_holidays, start, end, out, frame>>

end_scalar_null_ignored(start_dates, end_dates) ==
    apply_values(start_dates,
        [start_date \in values(start_dates) |->
            Count(start_date, IF end_dates[1] = None THEN 0 ELSE end_dates[1][1])])

end_scalar_null_of_end_length(start_dates, end_dates) ==
    IF end_dates[1] # None
    THEN apply_values(start_dates,
            [start_date \in values(start_dates) |-> Count(start_date, end_dates[1][1])])
    ELSE full_null(Len(end_dates))

\* the (_, 1) arm
end_scalar(start_dates, end_dates) ==
    IF end_dates[1] # None
    THEN apply_values(start_dates,
            [start_date \in values(start_dates) |-> Count(start_date, end_dates[1][1])])
    ELSE full_null(Len(start_dates))

\* the (1, _) arm
start_scalar(start_dates, end_dates) ==
    IF start_dates[1] # None
    THEN apply_values(end_dates,
            [end_date \in values(end_dates) |-> Count(start_dates[1][1], end_date)])
    ELSE full_null(Len(end_dates))

\* the _ arm
elementwise(start_dates, end_dates) ==
    binary_elementwise_values(start_dates, end_dates,
        [p \in values(start_dates) \X values(end_dates) |-> Count(p[1], p[2])])

MatchEndScalar ==
    /\ pc = "dispatch"
    /\ Len(end) = 1
    /\ out' = Some(end_scalar(start, end))
    /\ pc' = "done"
    /\ UNCHANGED <<week_mask, raw_holidays, start, end, holidays, frame>>

MatchStartScalar ==
    /\ pc = "dispatch"
    /\ Len(end) # 1
    /\ Len(start) = 1
    /\ out' = Some(start_scalar(start, end))
    /\ pc' = "done"
    /\ UNCHANGED <<week_mask, raw_holidays, start, end, holidays, frame>>

MatchElementwise ==
    /\ pc = "dispatch"
    /\ Len(end) # 1
    /\ Len(start) # 1
    /\ out' = Some(elementwise(start, end))
    /\ pc' = "done"
    /\ UNCHANGED <<week_mask, raw_holidays, start, end, holidays, frame>>

----------------------------------------------------------------------------
(* business_day_count_impl for one non-null pair, statement by statement. *)

ImplEnter ==
    /\ pc = "dispatch"
    /\ frame' = impl_enter(start[1][1], end[1][1], n_business_days(week_mask),
                           holidays[1])
    /\ pc' = "loop"
    /\ UNCHANGED <<week_mask, raw_holidays, start, end, holidays, out>>

ImplLoop ==
    /\ pc = "loop"
    /\ loop_cond(frame)
    /\ frame' = loop_body(frame, week_mask)
    /\ UNCHANGED <<week_mask, raw_holidays, start, end, pc, holidays, out>>

ImplReturn ==
    /\ pc = "loop"
    /\ ~loop_cond(frame)
    /\ out' = Some(<<Some(impl_return(frame))>>)
    /\ pc' = "done"
    /\ UNCHANGED <<week_mask, raw_holidays, start, end, holidays, frame>>

----------------------------------------------------------------------------
(* Specifications. *)

\* the arrays the caller may pass: one side of length 1, or equal lengths
Arrays == SeqsUpTo({None} \cup {Some(d) : d \in ElemDates}, MaxLen)

\* business_day_count on nullable arrays
Init ==
    /\ week_mask \in WeekMasks
    /\ raw_holidays \in {<<>>, <<5, 0, 5>>}
    /\ start \in Arrays
    /\ end \in Arrays
    /\ Len(start) = 1 \/ Len(end) = 1 \/ Len(start) = Len(end)
    /\ pc = "validate"
    /\ holidays = None
    /\ out = None
    /\ frame = NoFrame

Next ==
    \/ Bail
    \/ Validated
    \/ Normalise
    \/ MatchEndScalar
    \/ MatchStartScalar
    \/ MatchElementwise

Spec == Init /\ [][Next]_vars

\* one non-null pair of dates under a valid mask, the mask check passed
InitPair ==
    /\ week_mask \in {m \in WeekMasks : has_business_day(m)}
    /\ raw_holidays \in RawHolidayLists
    /\ start \in {<<Some(d)>> : d \in Dates}
    /\ end \in {<<Some(d)>> : d \in Dates}
    /\ pc = "normalise"
    /\ holidays = None
    /\ out = None
    /\ frame = NoFrame

NextCount == Normalise \/ MatchEndScalar

SpecCount == InitPair /\ [][NextCount]_vars

\* the same call with the kernel unfolded
NextImpl == Normalise \/ ImplEnter \/ ImplLoop \/ ImplReturn

SpecImpl == InitPair /\ [][NextImpl]_vars

\* normalise_holidays on arbitrary raw lists
InitNorm ==
    /\ week_mask \in {m \in WeekMasks : has_business_day(m)}
    /\ raw_holidays \in SeqsUpTo((-NormSpan)..NormSpan, MaxRawLen)
    /\ start = <<>>
    /\ end = <<>>
    /\ pc = "normalise"
    /\ holidays = None
    /\ out = None
    /\ frame = NoFrame

NextNorm == Normalise

SpecNorm == InitNorm /\ [][NextNorm]_vars

----------------------------------------------------------------------------
(* Properties. *)

\* the pair and the result of the single-pair specifications
A == start[1][1]
B == end[1][1]
Result == out[1][1][1]

Returned == pc = "done" /\ out # None

\* d is a business day under the mask and no holiday of the raw list
IsCounted(d) == week_mask[weekday(d)] /\ d \notin Range(raw_holidays)

Indicator(p) == IF p THEN 1 ELSE 0

\* the day-by-day scan of lo .. hi
Scan(lo, hi) == Cardinality({d \in lo..hi : IsCounted(d)})

CountWith(a, b, raw) ==
    business_day_count_impl(a, b, week_mask, n_business_days(week_mask),
                            normalise_holidays(raw, week_mask))

\* C1: for start <= end the kernel, given the normalised holidays, returns the
\* number of days d with start <= d < end that are business days under the
\* mask and are not holidays.
C1_ForwardCountIsScan ==
    (Returned /\ A <= B) => Result = Scan(A, B - 1)

C1_Witness ==
    /\ Returned
    /\ B - A >= 8
    /\ Result > 0
    /\ Result < Cardinality({d \in A..(B - 1) : week_mask[weekday(d)]})
    /\ \E i \in 1..Len(raw_holidays) : ~week_mask[weekday(raw_holidays[i])]

\* C2 as stated: count(a, b) = -count(b, a) for all dates a and b.
C2_AntiSymmetry ==
    Returned => Result = -Count(B, A)

\* C2 amended: count(a, b) + count(b, a) is the indicator that min(a, b) is a
\* non-holiday business day minus the indicator that max(a, b) is one; so
\* count(a, b) = -count(b, a) exactly when both dates are alike in that.
C2_AntiSymmetryUpToEndpoints ==
    Returned =>
        LET lo == IF A <= B THEN A ELSE B
            hi == IF A <= B THEN B ELSE A
        IN  /\ Result + Count(B, A)
                 = Indicator(IsCounted(lo)) - Indicator(IsCounted(hi))
            /\ (IsCounted(A) <=> IsCounted(B)) => Result = -Count(B, A)

C2_Witness ==
    /\ Returned
    /\ A < B
    /\ IsCounted(A) /\ ~IsCounted(B)
    /\ Result = 1 - Count(B, A)
    /\ raw_holidays # <<>>

\* C3: for end < start, count(start, end) = -count(end + 1, start + 1), which
\* is minus the number of non-holiday business days d with end < d <= start.
C3_ReversedCount ==
    (Returned /\ B < A) =>
        /\ Result = -Count(B + 1, A + 1)
        /\ Result = -Scan(B + 1, A)

C3_Witness ==
    /\ Returned
    /\ A - B >= 8
    /\ Result < 0
    /\ IsCounted(A) /\ ~IsCounted(B)
    /\ \E i \in 1..Len(raw_holidays) :
          /\ B < raw_holidays[i] /\ raw_holidays[i] <= A
          /\ week_mask[weekday(raw_holidays[i])]

\* C4: for a < b and a date h not in the raw holiday list: if a <= h < b and h
\* is a business day, adding h lowers count(a, b) by exactly 1; if h is not a
\* business day, adding h leaves count(a, b) unchanged.
C4_HolidaySubtraction ==
    (Returned /\ A < B) =>
        \A h \in Dates \ Range(raw_holidays) :
            LET added == CountWith(A, B, Append(raw_holidays, h))
            IN  /\ (A <= h /\ h < B /\ week_mask[weekday(h)]) => added = Result - 1
                /\ ~week_mask[weekday(h)] => added = Result

C4_Witness ==
    /\ Returned
    /\ A < B
    /\ raw_holidays # <<>>
    /\ \E h \in Dates \ Range(raw_holidays) :
          /\ A <= h /\ h < B /\ week_mask[weekday(h)]
          /\ CountWith(A, B, Append(raw_holidays, h)) = Result - 1
    /\ \E h \in Dates \ Range(raw_holidays) :
          /\ A <= h /\ h < B /\ ~week_mask[weekday(h)]
          /\ CountWith(A, B, Append(raw_holidays, h)) = Result

MonToFri == [i \in 0..6 |-> i <= 4]

\* C8 as stated: Monday-to-Friday mask, no holidays: count(0, 7) = 5,
\* count(0, 4) = 4 and count(4, 0) = -4.
C8_ExampleFromDayZero ==
    (Returned /\ week_mask = MonToFri /\ raw_holidays = <<>>) =>
        /\ (A = 0 /\ B = 7) => Result = 5
        /\ (A = 0 /\ B = 4) => Result = 4
        /\ (A = 4 /\ B = 0) => Result = -4

\* C8 amended: day 0 is a Thursday (weekday index 3), so with the
\* Monday-to-Friday mask and no holidays count(0, 7) = 5, count(0, 4) = 2 and
\* count(4, 0) = -2; the values 5, 4, -4 are those of a Monday start, such as
\* day -3: count(-3, 4) = 5, count(-3, 1) = 4 and count(1, -3) = -4.
C8_ExampleFromThursdayAndMonday ==
    (Returned /\ week_mask = MonToFri /\ raw_holidays = <<>>) =>
        /\ weekday(0) = 3 /\ weekday(-3) = 0
        /\ (A = 0 /\ B = 7) => Result = 5
        /\ (A = 0 /\ B = 4) => Result = 2
        /\ (A = 4 /\ B = 0) => Result = -2
        /\ (A = -3 /\ B = 4) => Result = 5
        /\ (A = -3 /\ B = 1) => Result = 4
        /\ (A = 1 /\ B = -3) => Result = -4

C8_Witness ==
    /\ Returned /\ week_mask = MonToFri /\ raw_holidays = <<>>
    /\ A = 1 /\ B = -3 /\ Result = -4

\* the operands the driver pairs at result position i
StartAt(i) == IF Len(end) # 1 /\ Len(start) = 1 THEN start[1] ELSE start[i]
EndAt(i) == IF Len(end) = 1 THEN end[1] ELSE end[i]

Max(a, b) == IF a >= b THEN a ELSE b

\* C5: in all three arms the result element at a position is null if the start
\* operand or the end operand used there is null, and is the pairwise count
\* of the two otherwise.
C5_NullPropagation ==
    (pc = "done") =>
        \A i \in 1..Len(out[1]) :
            IF StartAt(i) = None \/ EndAt(i) = None
            THEN out[1][i] = None
            ELSE out[1][i] = Some(Count(StartAt(i)[1], EndAt(i)[1]))

C5_Witness ==
    /\ pc = "done"
    /\ Len(start) = 2 /\ Len(end) = 1
    /\ start[1] = None /\ start[2] # None /\ end[1] # None
    /\ out[1][1] = None
    /\ out[1][2] # None /\ out[1][2][1] < 0

\* C6 as stated: if either array has length 1 the result has length
\* max(len(start), len(end)), otherwise the common length.
C6_LengthIsMax ==
    (pc = "done") =>
        IF Len(start) = 1 \/ Len(end) = 1
        THEN Len(out[1]) = Max(Len(start), Len(end))
        ELSE Len(out[1]) = Len(start) /\ Len(out[1]) = Len(end)

\* C6 amended: if the end array has length 1 the result has the length of the
\* start array; otherwise, if the start array has length 1, the length of the
\* end array; otherwise the common length.  That is max(len(start), len(end))
\* unless the array paired with the length-1 array is empty: then the result
\* is empty.
C6_LengthOfBroadcastTarget ==
    (pc = "done") =>
        /\ Len(end) = 1 => Len(out[1]) = Len(start)
        /\ (Len(end) # 1 /\ Len(start) = 1) => Len(out[1]) = Len(end)
        /\ (Len(end) # 1 /\ Len(start) # 1) =>
              Len(out[1]) = Len(start) /\ Len(out[1]) = Len(end)
        /\ ((Len(start) = 1 \/ Len(end) = 1) /\ Len(start) > 0 /\ Len(end) > 0) =>
              Len(out[1]) = Max(Len(start), Len(end))

C6_Witness ==
    /\ pc = "done"
    /\ Len(start) = 0 /\ Len(end) = 1
    /\ out = Some(<<>>)

\* C7: with no true entry in the week mask the call ends in the error, with
\* the holidays not normalised and no count computed; with a true entry the
\* error is never raised.
C7_ConfigurationError ==
    /\ pc = "error" => (holidays = None /\ out = None)
    /\ ((\A i \in 0..6 : ~week_mask[i]) /\ pc # "validate") => pc = "error"
    /\ (\E i \in 0..6 : week_mask[i]) => pc # "error"

C7_Witness ==
    /\ pc = "error"
    /\ raw_holidays # <<>>
    /\ Len(start) = 2 /\ start[1] # None

StrictlyAscending(s) == \A i \in 1..(Len(s) - 1) : s[i] < s[i + 1]

\* C9: the output of normalise_holidays is strictly ascending, holds no date
\* on a non-business day, and holds exactly the distinct dates of the input
\* that fall on a business day.
C9_NormalisedHolidays ==
    holidays # None =>
        /\ StrictlyAscending(holidays[1])
        /\ \A i \in 1..Len(holidays[1]) : week_mask[weekday(holidays[1][i])]
        /\ Range(holidays[1]) = {x \in Range(raw_holidays) : week_mask[weekday(x)]}

C9_Witness ==
    /\ holidays # None
    /\ Len(raw_holidays) = 3
    /\ raw_holidays[1] > raw_holidays[2]
    /\ raw_holidays[1] = raw_holidays[3]
    /\ week_mask[weekday(raw_holidays[1])] /\ ~week_mask[weekday(raw_holidays[2])]
    /\ holidays[1] = <<raw_holidays[1]>>

\* C10: weekday(date) lies in 0..6 for every date, negative ones included, and
\* whenever control is at the remainder loop the index start_weekday lies in
\* 0..6 and is the weekday of the loop's current date.
C10_MaskIndexInRange ==
    /\ weekday(A) \in 0..6
    /\ weekday(B) \in 0..6
    /\ pc = "loop" =>
          /\ frame.start_weekday \in 0..6
          /\ frame.start_weekday = weekday(frame.start_date)

C10_Witness ==
    /\ pc = "loop"
    /\ loop_cond(frame)
    /\ frame.start_date < 0
    /\ frame.start_weekday = 0
    /\ frame.count > 0
    /\ frame.swapped

\* the stepped kernel returns what business_day_count_impl returns
SteppedEqualsImpl == Returned => Result = Count(A, B)

====
